---- MODULE Spec2Model ----
(***************************************************************************)
(* Model of Xdiff (xdiff / xreq): request templates with runtime          *)
(* overrides, content-type driven body serialization, response            *)
(* normalization and the override directive parser.                        *)
(*                                                                         *)
(* Representation of text.  TLC cannot look inside a string, so text is   *)
(* modelled at the granularity that the code's parsing acts on:            *)
(*   - an override directive (cli.rs) is a sequence of characters;        *)
(*   - JSON text (serde_json input and output) is a sequence of lexical   *)
(*     tokens, whitespace left out;                                        *)
(*   - header names, header values, object keys and URL bases are atoms,  *)
(*     with the conversions the code applies to them (lower-casing,       *)
(*     validation, cutting at ';') given on the atoms used.                *)
(***************************************************************************)
EXTENDS Integers, Sequences, FiniteSets, TLC

VARIABLES
    profile,    \* the RequestProfile (template) the operations are called on
    args,       \* the ExtraArgs of the last call
    response,   \* the Response in hand on the response side
    res_profile,\* the skip list(s) of the last call on the response side
    config,     \* the profile store loaded from the configuration file
    run,        \* the call in progress: its position, what the servers answer,
                \* what has arrived and the texts obtained so far
    op,         \* name of the last operation
    out         \* what the last operation returned

vars == <<profile, args, response, res_profile, config, run, op, out>>
req_vars == <<profile, args>>
res_vars == <<response, res_profile>>
run_vars == <<config, run>>

(***************************************************************************)
(* Bounds of the model.                                                    *)
(***************************************************************************)
MaxKeys == 1          \* number of distinct object keys in templates
MaxOverrides == 2     \* number of override directives of one call
MaxDirectiveLen == 4  \* characters of an override directive

(***************************************************************************)
(* serde_json::Value.  t is the kind, s the text of a scalar, m the       *)
(* members of an object (key -> Value) or of an array ("0","1",.. ->      *)
(* Value).                                                                 *)
(***************************************************************************)
EmptyMap == [k \in {} |-> "0"]

Scalar(t, s) == [t |-> t, s |-> s, m |-> EmptyMap]
JNull == Scalar("null", "null")
JBool(s) == Scalar("bool", s)
JNum(s) == Scalar("num", s)
JStr(s) == Scalar("str", s)
JObj(m) == [t |-> "obj", s |-> "", m |-> m]
JArr(m) == [t |-> "arr", s |-> "", m |-> m]

is_object(v) == v.t = "obj"
is_null(v) == v.t = "null"

\* json!({})
EmptyObject == JObj(EmptyMap)

\* Option<serde_json::Value>
None == [some |-> FALSE, val |-> JNull]
Some(v) == [some |-> TRUE, val |-> v]

\* Option::unwrap_or_else(|| json!({}))
unwrap_or_empty(o) == IF o.some THEN o.val ELSE EmptyObject

\* anyhow::Result of the operations: ok, or the kind of error
Ok(v) == [ok |-> TRUE, err |-> "", val |-> v]
Err(e) == [ok |-> FALSE, err |-> e, val |-> JNull]
\* a panic (unwrap on None / Err, indexing a non-object): the process aborts
Panic == Err("panic")

(***************************************************************************)
(* JSON text as a sequence of lexical tokens.  k is the token class:      *)
(* "p" punctuation, "num" a number literal, "lit" true/false/null, "str"  *)
(* a double-quoted string (v is its content), "word" any other run of     *)
(* characters (hello, bob: not JSON).                                      *)
(***************************************************************************)
Tok(k, v) == [k |-> k, v |-> v]
P(c) == Tok("p", c)

\* Key order of serde_json's map (a BTreeMap: keys in string order), on the
\* keys the model uses: array positions, then object keys.
KeyPool == <<"a", "b", "c", "d">>
IdxPool == <<"0", "1", "2">>
KeyOrder == IdxPool \o KeyPool

Keys == {KeyPool[i] : i \in 1..MaxKeys}

SortedKeys(m) == SelectSeq(KeyOrder, LAMBDA k : k \in DOMAIN m)

\* Map::insert / Map::remove
MapInsert(m, k, v) == [x \in (DOMAIN m) \cup {k} |-> IF x = k THEN v ELSE m[x]]
MapRemove(m, k) == [x \in (DOMAIN m) \ {k} |-> m[x]]

(***************************************************************************)
(* serde_json::from_str (also str::parse::<Value>): a recursive-descent  *)
(* parse of the whole text.                                                *)
(* Each Parse* returns [ok, val, rest].                                    *)
(***************************************************************************)
PFail == [ok |-> FALSE, val |-> JNull, rest |-> <<>>]
POk(v, rest) == [ok |-> TRUE, val |-> v, rest |-> rest]

RECURSIVE ParseValue(_), ParseMembers(_, _), ParseElements(_, _)

ParseValue(ts) ==
    IF ts = <<>> THEN PFail
    ELSE LET h == Head(ts)
             r == Tail(ts)
         IN CASE h.k = "num" -> POk(JNum(h.v), r)
              [] h.k = "str" -> POk(JStr(h.v), r)
              [] h.k = "lit" -> IF h.v = "null" THEN POk(JNull, r)
                                ELSE POk(JBool(h.v), r)
              [] h.k = "p" /\ h.v = "{" ->
                    IF r # <<>> /\ Head(r) = P("}")
                    THEN POk(EmptyObject, Tail(r))
                    ELSE ParseMembers(r, EmptyMap)
              [] h.k = "p" /\ h.v = "[" ->
                    IF r # <<>> /\ Head(r) = P("]")
                    THEN POk(JArr(EmptyMap), Tail(r))
                    ELSE ParseElements(r, EmptyMap)
              [] OTHER -> PFail

\* "key" : value ( , ... )* }
ParseMembers(ts, acc) ==
    IF Len(ts) < 3 \/ ts[1].k # "str" \/ ts[2] # P(":") THEN PFail
    ELSE LET pv == ParseValue(SubSeq(ts, 3, Len(ts)))
         IN IF ~pv.ok \/ pv.rest = <<>> THEN PFail
            ELSE LET acc2 == MapInsert(acc, ts[1].v, pv.val)
                     sep == Head(pv.rest)
                 IN IF sep = P("}") THEN POk(JObj(acc2), Tail(pv.rest))
                    ELSE IF sep = P(",") THEN ParseMembers(Tail(pv.rest), acc2)
                    ELSE PFail

\* value ( , ... )* ]
ParseElements(ts, acc) ==
    LET pv == ParseValue(ts)
    IN IF ~pv.ok \/ pv.rest = <<>> THEN PFail
       ELSE LET n == Cardinality(DOMAIN acc)
                acc2 == IF n < Len(IdxPool)
                        THEN MapInsert(acc, IdxPool[n + 1], pv.val)
                        ELSE acc
                sep == Head(pv.rest)
            IN IF sep = P("]") THEN POk(JArr(acc2), Tail(pv.rest))
               ELSE IF sep = P(",") THEN ParseElements(Tail(pv.rest), acc2)
               ELSE PFail

serde_json_from_str(ts) ==
    LET pv == ParseValue(ts)
    IN IF pv.ok /\ pv.rest = <<>> THEN Ok(pv.val) ELSE Err("JsonSyntax")

(***************************************************************************)
(* serde_json::to_string / to_string_pretty: the tokens of a value, the   *)
(* members of an object in key order.  The two differ only in the         *)
(* whitespace between tokens, which the token sequence leaves out.         *)
(***************************************************************************)
RECURSIVE to_string(_), WriteMembers(_, _, _)

WriteMembers(v, ks, first) ==
    IF ks = <<>> THEN <<>>
    ELSE (IF first THEN <<>> ELSE <<P(",")>>)
         \o (IF v.t = "obj" THEN <<Tok("str", Head(ks)), P(":")>> ELSE <<>>)
         \o to_string(v.m[Head(ks)])
         \o WriteMembers(v, Tail(ks), FALSE)

to_string(v) ==
    CASE v.t = "num" -> <<Tok("num", v.s)>>
      [] v.t = "str" -> <<Tok("str", v.s)>>
      [] v.t = "bool" -> <<Tok("lit", v.s)>>
      [] v.t = "null" -> <<Tok("lit", "null")>>
      [] v.t = "obj" -> <<P("{")>> \o WriteMembers(v, SortedKeys(v.m), TRUE) \o <<P("}")>>
      [] v.t = "arr" -> <<P("[")>> \o WriteMembers(v, SortedKeys(v.m), TRUE) \o <<P("]")>>

to_string_pretty(v) == to_string(v)

(***************************************************************************)
(* Header names and values (http::HeaderName, http::HeaderValue), on the  *)
(* atoms the model uses.                                                   *)
(***************************************************************************)
\* str::to_ascii_lowercase on the atoms that are valid header-name tokens;
\* every other atom holds a character a header name may not (' ', '/', ';').
LowerCase ==
    ("Content-Type" :> "content-type") @@ ("content-type" :> "content-type")
    @@ ("X-Token" :> "x-token") @@ ("x-token" :> "x-token")
    @@ ("Date" :> "date") @@ ("date" :> "date")
    @@ ("abc" :> "abc")

\* HeaderName::from_str: lower-cases a valid name, rejects any other text
HeaderName_from_str(s) ==
    IF s \in DOMAIN LowerCase THEN Ok(LowerCase[s]) ELSE Err("InvalidHeaderName")

\* the atom standing for a value with bytes outside visible ASCII
OpaqueBytes == "opaque-bytes"

\* str::parse::<HeaderValue>: fails on a control character
HeaderValue_from_str(s) ==
    IF s = "line\nbreak" THEN Err("InvalidHeaderValue") ELSE Ok(s)

\* HeaderValue::to_str: fails unless the value is visible ASCII
to_str(v) == IF v = OpaqueBytes THEN Err("ToStrError") ELSE Ok(v)

\* str::split(';').next(): the text before the first ';'
BeforeSemicolon(s) ==
    IF s = "application/json; charset=utf-8" THEN "application/json" ELSE s

CONTENT_TYPE == "content-type"

\* HeaderMap as the sequence of its entries, in insertion order
Header(n, v) == [name |-> n, value |-> v]
contains_key(h, n) == \E i \in 1..Len(h) : h[i].name = n

\* HeaderMap::insert: replaces the value of a name already present (the maps
\* built by insert hold each name once), appends a new name
insert(h, n, v) ==
    IF contains_key(h, n)
    THEN [i \in 1..Len(h) |-> IF h[i].name = n THEN Header(n, v) ELSE h[i]]
    ELSE Append(h, Header(n, v))

\* Option<String>
NoneStr == [some |-> FALSE, val |-> ""]
SomeStr(s) == [some |-> TRUE, val |-> s]

\* HeaderMap::get: the first value of the name
get(h, n) ==
    IF contains_key(h, n)
    THEN SomeStr(h[CHOOSE i \in 1..Len(h) :
                      h[i].name = n /\ \A j \in 1..(i - 1) : h[j].name # n].value)
    ELSE NoneStr

\* config/mod.rs get_content_type: Ok(None), Ok(Some(type)) or a panic of the
\* unwrap on to_str
get_content_type(headers) ==
    LET v == get(headers, CONTENT_TYPE)
    IN IF ~v.some THEN Ok(NoneStr)
       ELSE IF ~to_str(v.val).ok THEN Panic
       ELSE Ok(SomeStr(BeforeSemicolon(v.val)))

(***************************************************************************)
(* RequestProfile and ExtraArgs                                            *)
(***************************************************************************)
\* url::Url: the part before '?', and the query (None, or its pairs; the
\* value of a pair is its text, lexed)
Url(base, has_query, pairs) == [base |-> base, has_query |-> has_query, pairs |-> pairs]
\* a pair of a query string: k is the key's path (a[b]=1 is <<"a", "b">>)
QueryPair(k, v) == [k |-> k, v |-> v]
\* a pair of a form-encoded body
FormPair(k, v) == [k |-> k, v |-> v]

\* Url::set_query
set_query_none(u) == Url(u.base, FALSE, <<>>)
set_query_some(u, pairs) == Url(u.base, TRUE, pairs)

RequestProfile(method, url, params, headers, body) ==
    [method |-> method, url |-> url, params |-> params, headers |-> headers, body |-> body]

\* lib.rs ExtraArgs: three lists of (key, value)
KV(k, v) == [key |-> k, value |-> v]
ExtraArgs(headers, query, body) == [headers |-> headers, query |-> query, body |-> body]
ExtraArgs_default == ExtraArgs(<<>>, <<>>, <<>>)

\* validate without its second check
validate_params_only(self) ==
    IF self.params.some /\ ~is_object(self.params.val)
    THEN Err("ParamsMustBeObject")
    ELSE Ok(JNull)

\* ConfigValidate for RequestProfile
validate(self) ==
    IF self.params.some /\ ~is_object(self.params.val)
    THEN Err("ParamsMustBeObject")
    ELSE IF self.body.some /\ ~is_object(self.body.val)
    THEN Err("BodyMustBeObject")
    ELSE Ok(JNull)

(***************************************************************************)
(* Text of an override value or of a URL query value: an atom, and its    *)
(* lexing into JSON tokens (what serde_json sees when the code calls      *)
(* v.parse()).                                                             *)
(***************************************************************************)
Lex(s) ==
    CASE s \in {"1", "2", "3"} -> <<Tok("num", s)>>
      [] s \in {"true", "false", "null"} -> <<Tok("lit", s)>>
      [] s = "\"hi\"" -> <<Tok("str", "hi")>>
      [] s = "[1]" -> <<P("["), Tok("num", "1"), P("]")>>
      [] s = "" -> <<>>
      [] OTHER -> <<Tok("word", s)>>

\* str::parse::<serde_json::Value>
parse(s) == serde_json_from_str(Lex(s))

\* IndexMut<&str> for serde_json::Value (value[k] = x): null becomes an
\* object, an object gets the entry, anything else panics
index_set(v, k, x) ==
    CASE v.t = "null" -> Ok(JObj(MapInsert(EmptyMap, k, x)))
      [] v.t = "obj" -> Ok(JObj(MapInsert(v.m, k, x)))
      [] OTHER -> Panic

(***************************************************************************)
(* RequestProfile::generate, config/mod.rs                                 *)
(***************************************************************************)
RECURSIVE insert_headers(_, _), set_entries(_, _)

\* for (k, v) in &args.headers { headers.insert(HeaderName::from_str(k)?,
\*                                              HeaderName::from_str(v)?.into()) }
insert_headers(headers, kvs) ==
    IF kvs = <<>> THEN Ok(headers)
    ELSE LET name == HeaderName_from_str(Head(kvs).key)
             value == HeaderName_from_str(Head(kvs).value)
         IN IF ~name.ok THEN name
            ELSE IF ~value.ok THEN value
            ELSE insert_headers(insert(headers, name.val, value.val), Tail(kvs))

\* for (k, v) in &args.query { query[k] = v.parse()?; }   (the same for body)
\* the value is parsed before the entry is indexed
set_entries(value, kvs) ==
    IF kvs = <<>> THEN Ok(value)
    ELSE LET parsed == parse(Head(kvs).value)
         IN IF ~parsed.ok THEN parsed
            ELSE LET set == index_set(value, Head(kvs).key, parsed.val)
                 IN IF ~set.ok THEN set
                    ELSE set_entries(set.val, Tail(kvs))

\* if !headers.contains_key(CONTENT_TYPE) { headers.insert(CONTENT_TYPE, "application/json") }
default_content_type(headers) ==
    IF ~contains_key(headers, CONTENT_TYPE)
    THEN insert(headers, CONTENT_TYPE, "application/json")
    ELSE headers

\* serde_urlencoded::to_string of a serde_json::Value: the pairs of an object
\* whose values are strings, numbers or booleans; no pair for a unit at the top
form_pair_ok(v) == v.t \in {"num", "str", "bool"}
serde_urlencoded_to_string(v) ==
    CASE v.t = "obj" ->
            IF \A k \in DOMAIN v.m : form_pair_ok(v.m[k])
            THEN Ok([i \in 1..Len(SortedKeys(v.m)) |->
                        FormPair(SortedKeys(v.m)[i], v.m[SortedKeys(v.m)[i]].s)])
            ELSE Err("UnsupportedValue")
      [] v.t = "null" -> Ok(<<>>)
      [] v.t = "arr" -> IF DOMAIN v.m = {} THEN Ok(<<>>) ELSE Err("UnsupportedPair")
      [] OTHER -> Err("TopLevel")

\* the serialized request body: its encoding and its text
Body(enc, text) == [enc |-> enc, text |-> text]
Generated(headers, query, body) == [headers |-> headers, query |-> query, body |-> body]

\* the match with its last arm falling back to JSON
serialize_body_fallback(headers, query, body) ==
    LET content_type == get_content_type(headers)
    IN IF ~content_type.ok THEN content_type
       ELSE IF content_type.val \in {SomeStr("application/x-www-form-urlencoded"),
                                     SomeStr("multipart/form-data")}
       THEN LET form == serde_urlencoded_to_string(body)
            IN IF ~form.ok THEN form
               ELSE Ok(Generated(headers, query, Body("form", form.val)))
       ELSE Ok(Generated(headers, query, Body("json", to_string(body))))

\* match content_type.as_deref() { ... }
serialize_body(headers, query, body) ==
    LET content_type == get_content_type(headers)
    IN IF ~content_type.ok THEN content_type
       ELSE IF content_type.val = SomeStr("application/json")
       THEN Ok(Generated(headers, query, Body("json", to_string(body))))
       ELSE IF content_type.val \in {SomeStr("application/x-www-form-urlencoded"),
                                     SomeStr("multipart/form-data")}
       THEN LET form == serde_urlencoded_to_string(body)
            IN IF ~form.ok THEN form
               ELSE Ok(Generated(headers, query, Body("form", form.val)))
       ELSE Err("UnsupportedContentType")

generate(self, a) ==
    LET headers == insert_headers(<<>>, a.headers)
    IN IF ~headers.ok THEN headers
       ELSE LET query == set_entries(unwrap_or_empty(self.params), a.query)
            IN IF ~query.ok THEN query
               ELSE LET body == set_entries(unwrap_or_empty(self.body), a.body)
                    IN IF ~body.ok THEN body
                       ELSE serialize_body(default_content_type(headers.val),
                                           query.val, body.val)

(***************************************************************************)
(* RequestProfile::generate, req.rs: header names and values are unwrapped *)
(* and the value is parsed as a HeaderValue                                *)
(***************************************************************************)
RECURSIVE req_insert_headers(_, _)

\* headers.insert(HeaderName::from_str(k).unwrap(), v.parse().unwrap())
req_insert_headers(headers, kvs) ==
    IF kvs = <<>> THEN Ok(headers)
    ELSE LET name == HeaderName_from_str(Head(kvs).key)
             value == HeaderValue_from_str(Head(kvs).value)
         IN IF ~name.ok \/ ~value.ok THEN Panic
            ELSE req_insert_headers(insert(headers, name.val, value.val), Tail(kvs))

req_generate(self, a) ==
    LET headers == req_insert_headers(<<>>, a.headers)
    IN IF ~headers.ok THEN headers
       ELSE LET query == set_entries(unwrap_or_empty(self.params), a.query)
            IN IF ~query.ok THEN query
               ELSE LET body == set_entries(unwrap_or_empty(self.body), a.body)
                    IN IF ~body.ok THEN body
                       ELSE serialize_body(default_content_type(headers.val),
                                           query.val, body.val)

(***************************************************************************)
(* RequestProfile::get_url                                                 *)
(***************************************************************************)
RECURSIVE serde_qs_pairs(_, _, _)

\* serde_qs::to_string: key=value for a scalar (key= for null), key[sub]=value
\* for the members of a nested object or array
serde_qs_pairs(v, ks, path) ==
    IF ks = <<>> THEN <<>>
    ELSE LET x == v.m[Head(ks)]
             p == Append(path, Head(ks))
         IN (IF x.t \in {"obj", "arr"} THEN serde_qs_pairs(x, SortedKeys(x.m), p)
             ELSE IF x.t = "null" THEN <<QueryPair(p, "")>>
             ELSE <<QueryPair(p, x.s)>>)
            \o serde_qs_pairs(v, Tail(ks), path)

serde_qs_to_string(v) == serde_qs_pairs(v, SortedKeys(v.m), <<>>)

get_url(self, a) ==
    LET generated == generate(self, a)
    IN IF ~generated.ok THEN generated
       ELSE LET params == generated.val.query
            IN IF ~is_object(params) THEN Panic
               ELSE IF DOMAIN params.m # {}
               THEN Ok(set_query_some(self.url, serde_qs_to_string(params)))
               ELSE Ok(self.url)

(***************************************************************************)
(* impl FromStr for RequestProfile                                         *)
(***************************************************************************)
\* a string given as a URL: whether url::Url::parse accepts it, and the Url
UrlText(valid, url) == [valid |-> valid, url |-> url]
Url_parse(s) == IF s.valid THEN Ok(s.url) ELSE Err("UrlParse")

RECURSIVE params_from_pairs(_, _)

\* for (k, v) in qs { params[&*k] = v.parse()?; }
params_from_pairs(params, pairs) ==
    IF pairs = <<>> THEN Ok(params)
    ELSE LET parsed == parse(Head(pairs).v)
         IN IF ~parsed.ok THEN parsed
            ELSE LET set == index_set(params, Head(pairs).k[1], parsed.val)
                 IN IF ~set.ok THEN set
                    ELSE params_from_pairs(set.val, Tail(pairs))

from_str(s) ==
    LET url == Url_parse(s)
    IN IF ~url.ok THEN url
       ELSE LET params == params_from_pairs(EmptyObject, url.val.pairs)
            IN IF ~params.ok THEN params
               ELSE Ok(RequestProfile("GET", set_query_none(url.val),
                                      Some(params.val), <<>>, None))

(***************************************************************************)
(* RequestProfile::send.  net is what the transport answers if the        *)
(* request is dispatched.  Returns the result and whether a request went  *)
(* out.                                                                    *)
(***************************************************************************)
Sent(result, dispatched) == [result |-> result, dispatched |-> dispatched]

\* RequestBuilder::query(&query) ... build().unwrap(): reqwest form-encodes the
\* query value; a value it cannot encode makes build() fail
send(self, a, net) ==
    LET generated == generate(self, a)
    IN IF ~generated.ok THEN Sent(generated, FALSE)
       ELSE IF ~serde_urlencoded_to_string(generated.val.query).ok
       THEN Sent(Panic, FALSE)
       ELSE Sent(net, TRUE)

(***************************************************************************)
(* Responses and the normalizer (config/mod.rs)                            *)
(***************************************************************************)
\* reqwest::Response: the header names are lower case (http::HeaderName), the
\* body is its text, lexed
Response(version, status, headers, body) ==
    [version |-> version, status |-> status, headers |-> headers, body |-> body]
NoResponse == Response("", "", <<>>, <<>>)

\* config/xdiff.rs ResponseProfile
ResponseProfile(skip_headers, skip_body) ==
    [skip_headers |-> skip_headers, skip_body |-> skip_body]
ResponseProfile_default == ResponseProfile(<<>>, <<>>)

\* a store with no profile, and no call in progress
NoConfig == <<>>
NoRun == [pc |-> "idle"]

\* pieces of output text: plain text, a Debug-formatted ({:?}) header value,
\* the end of a line
Text(s) == Tok("text", s)
Debug(s) == Tok("debug", s)
NL == Tok("nl", "\n")

\* <[String]>::contains
contains(list, s) == \E i \in 1..Len(list) : list[i] = s

\* StatusCode::canonical_reason().unwrap_or("")
canonical_reason(status) ==
    CASE status = "200" -> "OK"
      [] status = "404" -> "Not Found"
      [] OTHER -> ""

get_status_text(res) ==
    <<Text(res.version), Text(" "), Text(res.status), Text(" "),
      Text(canonical_reason(res.status))>>

RECURSIVE write_headers(_, _)
\* for (h_name, h_value) in headers { if !skip_headers.contains(&h_name.to_string())
\*     { writeln!(output, "{}: {:?}", h_name, h_value) } }
write_headers(headers, skip_headers) ==
    IF headers = <<>> THEN <<>>
    ELSE (IF ~contains(skip_headers, Head(headers).name)
          THEN <<Text(Head(headers).name), Text(": "), Debug(Head(headers).value), NL>>
          ELSE <<>>)
         \o write_headers(Tail(headers), skip_headers)

get_heardes_text(res, skip_headers) ==
    Ok(write_headers(res.headers, skip_headers) \o <<NL>>)

RECURSIVE remove_keys(_, _)
\* for k in skip { map.remove(k); }
remove_keys(m, skip) ==
    IF skip = <<>> THEN m ELSE remove_keys(MapRemove(m, Head(skip)), Tail(skip))

\* filter_json that removes only the first key of the skip list
filter_json_first_only(text, skip) ==
    LET json == serde_json_from_str(text)
    IN IF ~json.ok THEN json
       ELSE IF json.val.t = "obj" /\ skip # <<>>
       THEN Ok(to_string_pretty(JObj(MapRemove(json.val.m, Head(skip)))))
       ELSE Ok(to_string_pretty(json.val))

filter_json(text, skip) ==
    LET json == serde_json_from_str(text)
    IN IF ~json.ok THEN json
       ELSE IF json.val.t = "obj"
       THEN Ok(to_string_pretty(JObj(remove_keys(json.val.m, skip))))
       ELSE Ok(to_string_pretty(json.val))

\* net is the outcome of res.text().await: the body, or a transport error
get_body_text(res, skip_headers, net) ==
    LET content_type == get_content_type(res.headers)
    IN IF ~content_type.ok THEN content_type
       ELSE IF ~net.ok THEN net
       ELSE IF content_type.val = SomeStr("application/json")
       THEN LET text == filter_json(net.val, skip_headers)
            IN IF ~text.ok THEN text ELSE Ok(text.val \o <<NL>>)
       ELSE Ok(net.val \o <<NL>>)

\* ResponseExt::get_text: writeln!(output, "{}\n{}\n{}", status, header, body)
get_text(res, rp, net) ==
    LET status == get_status_text(res)
        header == get_heardes_text(res, rp.skip_headers)
        body == get_body_text(res, rp.skip_body, net)
    IN IF ~header.ok THEN header
       ELSE IF ~body.ok THEN body
       ELSE Ok(status \o <<NL>> \o header.val \o <<NL>> \o body.val \o <<NL>>)

(***************************************************************************)
(* The inputs of the request side                                          *)
(***************************************************************************)
\* the JSON objects with keys among ks and member values among vs
Objects(ks, vs) == {JObj(m) : m \in UNION {[d -> vs] : d \in SUBSET ks}}

NestedObject == JObj("b" :> JNum("2"))
ArrayValue == JArr("0" :> JNum("1"))
NonObjects == {ArrayValue, JNum("1"), JNull}

ParamsPool == {None} \cup {Some(v) : v \in Objects(Keys, {JNum("1"), NestedObject}) \cup NonObjects}
BodyPool == {None} \cup {Some(v) : v \in Objects(Keys, {JStr("x"), NestedObject}) \cup NonObjects}
HeadersPool == {<<>>, <<Header("content-type", "text/plain"), Header("x-token", "abc")>>}
PlainUrl == Url("https://api.example.com/users", FALSE, <<>>)
UrlPool == {PlainUrl, Url("https://api.example.com/users", TRUE, <<QueryPair(<<"page">>, "1")>>)}

Templates ==
    {RequestProfile("GET", PlainUrl, p, h, b) :
        p \in ParamsPool, h \in HeadersPool, b \in BodyPool}

\* "a" is a key of the templates, "d" is a key of none
HeaderOverrides ==
    {KV("Content-Type", "application/json"),
     KV("Content-Type", "text/plain"),
     KV("Content-Type", "application/x-www-form-urlencoded"),
     KV("content-type", "multipart/form-data"),
     KV("X-Token", "abc"),
     KV("bad name", "abc")}
QueryOverrides == {KV("a", "2"), KV("a", "hello"), KV("d", "2")}
BodyOverrides == {KV("a", "hello"), KV("d", "2")}

\* cli.rs KeyVal
KeyVal(key_type, key, value) == [key_type |-> key_type, key |-> key, value |-> value]

KeyVals ==
    {KeyVal("Header", o.key, o.value) : o \in HeaderOverrides}
    \cup {KeyVal("Query", o.key, o.value) : o \in QueryOverrides}
    \cup {KeyVal("Body", o.key, o.value) : o \in BodyOverrides}

SeqsUpTo(S, n) == UNION {[1..k -> S] : k \in 0..n}

\* impl From<Vec<KeyVal>> for ExtraArgs
ExtraArgs_from(kvs) ==
    LET of(t) == SelectSeq(kvs, LAMBDA kv : kv.key_type = t)
        pairs(l) == [i \in 1..Len(l) |-> KV(l[i].key, l[i].value)]
    IN ExtraArgs(pairs(of("Header")), pairs(of("Query")), pairs(of("Body")))

ArgsPool == {ExtraArgs_from(l) : l \in SeqsUpTo(KeyVals, MaxOverrides)}

\* what the transport answers
NetPool == {Err("Transport"), Ok(JStr("response"))}

(***************************************************************************)
(* The request side as a state machine: a template built by               *)
(* RequestProfile::new, and one operation called on it.                    *)
(***************************************************************************)
Init ==
    /\ profile \in Templates
    /\ args = ExtraArgs_default
    /\ response = NoResponse
    /\ res_profile = ResponseProfile_default
    /\ config = NoConfig
    /\ run = NoRun
    /\ op = "new"
    /\ out = Ok(JNull)

Validate ==
    /\ op = "new"
    /\ op' = "validate"
    /\ out' = validate(profile)
    /\ UNCHANGED <<profile, args, res_vars, run_vars>>

Generate ==
    \E a \in ArgsPool :
        /\ op = "new"
        /\ op' = "generate"
        /\ args' = a
        /\ out' = generate(profile, a)
        /\ UNCHANGED <<profile, res_vars, run_vars>>

ReqGenerate ==
    \E a \in ArgsPool :
        /\ op = "new"
        /\ op' = "req_generate"
        /\ args' = a
        /\ out' = req_generate(profile, a)
        /\ UNCHANGED <<profile, res_vars, run_vars>>

Send ==
    \E a \in ArgsPool, net \in NetPool :
        /\ op = "new"
        /\ op' = "send"
        /\ args' = a
        /\ out' = send(profile, a, net)
        /\ UNCHANGED <<profile, res_vars, run_vars>>

Next == Validate \/ Generate \/ ReqGenerate \/ Send

Spec == Init /\ [][Next]_vars

(***************************************************************************)
(* URLs: get_url on a template, and a template parsed from a URL string   *)
(***************************************************************************)
UrlTemplates ==
    {RequestProfile("GET", u, p, <<>>, b) :
        u \in UrlPool, p \in ParamsPool, b \in {None, Some(JObj("a" :> JStr("x")))}}

\* the strings given to from_str: not a URL, or a URL with up to MaxPairs
\* query pairs
MaxPairs == 2
QueryTexts == {"true", "2", "bob"}
QueryKeys == {"active", "page"}
UrlTexts ==
    {UrlText(FALSE, PlainUrl)}
    \cup {UrlText(TRUE, Url("https://api.example.com/users", Len(ps) > 0, ps)) :
            ps \in SeqsUpTo({QueryPair(<<k>>, v) : k \in QueryKeys, v \in QueryTexts}, MaxPairs)}

InitUrl ==
    /\ profile \in UrlTemplates
    /\ args = ExtraArgs_default
    /\ response = NoResponse
    /\ res_profile = ResponseProfile_default
    /\ config = NoConfig
    /\ run = NoRun
    /\ op = "new"
    /\ out = Ok(JNull)

GetUrl ==
    \E a \in ArgsPool :
        /\ op = "new"
        /\ op' = "get_url"
        /\ args' = a
        /\ out' = get_url(profile, a)
        /\ UNCHANGED <<profile, res_vars, run_vars>>

\* out keeps the string; the parsed template replaces profile
FromStr ==
    \E s \in UrlTexts :
        /\ op = "new"
        /\ op' = "from_str"
        /\ out' = [input |-> s, result |-> from_str(s)]
        /\ profile' = IF from_str(s).ok THEN from_str(s).val ELSE profile
        /\ UNCHANGED <<args, res_vars, run_vars>>

NextUrl == GetUrl \/ FromStr

SpecUrl == InitUrl /\ [][NextUrl]_vars

(***************************************************************************)
(* Properties of the request side                                          *)
(***************************************************************************)
ArrayOrScalar(v) == v.t \in {"arr", "num", "str", "bool", "null"}
InvalidShape == {"ParamsMustBeObject", "BodyMustBeObject"}
AllKeys == {KeyPool[i] : i \in 1..Len(KeyPool)}

\* the template is one that validate accepts
ValidTemplate ==
    /\ profile.params.some => profile.params.val.t = "obj"
    /\ profile.body.some => profile.body.val.t = "obj"

\* C1: validate succeeds exactly when params is absent or a JSON object and
\* body is absent or a JSON object; a template whose params or body is present
\* and is an array or a scalar (null included) fails with an InvalidShape error.
C1_ValidateShape ==
    op = "validate" =>
        IF \/ profile.params.some /\ ArrayOrScalar(profile.params.val)
           \/ profile.body.some /\ ArrayOrScalar(profile.body.val)
        THEN ~out.ok /\ out.err \in InvalidShape
        ELSE out.ok

\* a template with object params and a null body has been rejected
C1_Witness ==
    /\ op = "validate"
    /\ profile.params.some /\ profile.params.val.t = "obj"
    /\ profile.body.some /\ profile.body.val.t = "null"
    /\ ~out.ok /\ out.err = "BodyMustBeObject"

\* the header overrides of the call name only valid header names
ValidHeaderKeys == \A i \in 1..Len(args.headers) : args.headers[i].key \in DOMAIN LowerCase

\* the value of the last header override whose key is the name n
LastOverride(n) ==
    LET is == {i \in 1..Len(args.headers) :
                  args.headers[i].key \in DOMAIN LowerCase
                  /\ LowerCase[args.headers[i].key] = n}
    IN IF is = {} THEN NoneStr
       ELSE SomeStr(args.headers[CHOOSE i \in is : \A j \in is : j <= i].value)

\* the header n of the template overlaid by the overrides
MergedHeader(n) ==
    IF LastOverride(n).some THEN LastOverride(n) ELSE get(profile.headers, n)

HeaderNames == {LowerCase[k] : k \in DOMAIN LowerCase}

\* C2: generate inserts each header override into the template's header map:
\* a same-named template header is replaced, the last override of a repeated
\* key wins, template headers named by no override are kept, and overriding
\* Content-Type: text/plain by application/json raises no header error.
C2_HeaderOverridesMerged ==
    (op = "generate" /\ ValidTemplate /\ ValidHeaderKeys) =>
        /\ out.err # "InvalidHeaderName"
        /\ out.ok => \A n \in HeaderNames \ {CONTENT_TYPE} :
                        get(out.val.headers, n) = MergedHeader(n)
        /\ (out.ok /\ MergedHeader(CONTENT_TYPE).some) =>
                get(out.val.headers, CONTENT_TYPE) = MergedHeader(CONTENT_TYPE)

SupportedTypes ==
    {"application/json", "application/x-www-form-urlencoded", "multipart/form-data"}

\* C3: the resolved request gets the default Content-Type: application/json
\* only if neither the template nor an override has a Content-Type; one that is
\* present after the merge is left unchanged and selects the serialization
\* (so an unsupported one makes generate fail).
C3_DefaultContentType ==
    (op = "generate" /\ ValidTemplate /\ ValidHeaderKeys
        /\ args.query = <<>> /\ args.body = <<>>) =>
        LET merged == MergedHeader(CONTENT_TYPE)
        IN IF ~merged.some
           THEN out.ok /\ get(out.val.headers, CONTENT_TYPE) = SomeStr("application/json")
           ELSE IF merged.val \in SupportedTypes
           THEN out.ok => get(out.val.headers, CONTENT_TYPE) = merged
           ELSE ~out.ok

\* the value an override text stands for under the typing rule of the spec: a
\* JSON number, boolean or null when the text parses as one, else a string
TypedValue(text) ==
    IF parse(text).ok /\ parse(text).val.t \in {"num", "bool", "null"}
    THEN parse(text).val
    ELSE JStr(text)

\* the entry k of the object base (or of {} when absent) after the overrides
MergedEntry(base, kvs, k) ==
    LET is == {i \in 1..Len(kvs) : kvs[i].key = k}
        b == unwrap_or_empty(base)
    IN IF is # {} THEN Some(TypedValue(kvs[CHOOSE i \in is : \A j \in is : j <= i].value))
       ELSE IF k \in DOMAIN b.m THEN Some(b.m[k])
       ELSE None

EntryOf(v, k) == IF k \in DOMAIN v.m THEN Some(v.m[k]) ELSE None

\* C4: every query override sets params[key], overwriting an entry and
\* leaving the other keys unchanged, body overrides do the same on body; the
\* value is a JSON number, boolean or null when its text parses as one and a
\* plain string otherwise, so no override text makes the merge fail.
C4_OverridesMerged ==
    (op = "generate" /\ ValidTemplate /\ args.headers = <<>>) =>
        /\ out.ok
        /\ \A k \in AllKeys :
              /\ EntryOf(out.val.query, k) = MergedEntry(profile.params, args.query, k)
              /\ EntryOf(serde_json_from_str(out.val.body.text).val, k)
                    = MergedEntry(profile.body, args.body, k)

\* the steps of the merge of the last generate call, each a Result
MergedHeaders ==
    IF op = "req_generate" THEN req_insert_headers(<<>>, args.headers)
    ELSE insert_headers(<<>>, args.headers)
MergedQuery == set_entries(unwrap_or_empty(profile.params), args.query)
MergedBody == set_entries(unwrap_or_empty(profile.body), args.body)
MergeOk == MergedHeaders.ok /\ MergedQuery.ok /\ MergedBody.ok
ResolvedType == get(default_content_type(MergedHeaders.val), CONTENT_TYPE)
FormTypes == {"application/x-www-form-urlencoded", "multipart/form-data"}

\* every member of the object v is a string, a number or a boolean
FlatObject(v) == v.t = "obj" /\ \A k \in DOMAIN v.m : v.m[k].t \in {"num", "str", "bool"}

\* text is the form encoding of the object v: one pair per key, with its text
FormEncodingOf(text, v) ==
    /\ Len(text) = Cardinality(DOMAIN v.m)
    /\ \A k \in DOMAIN v.m : \E i \in 1..Len(text) : text[i] = FormPair(k, v.m[k].s)

LastPair(pairs, k) ==
    LET is == {i \in 1..Len(pairs) : pairs[i].k = <<k>>}
    IN IF is = {} THEN None
       ELSE Some(TypedValue(pairs[CHOOSE i \in is : \A j \in is : j <= i].v))

\* C6: from_str of a URL string yields a GET template with the query string
\* removed from the URL, one params entry per query key (a JSON scalar when
\* the value parses as one, else a plain string), no headers and no body; a
\* query value that is ordinary text (?name=bob) still parses.
C6_FromUrlString ==
    (op = "from_str" /\ out.input.valid) =>
        /\ out.result.ok
        /\ profile = out.result.val
        /\ profile.method = "GET"
        /\ profile.url = Url(out.input.url.base, FALSE, <<>>)
        /\ profile.headers = <<>>
        /\ profile.body = None
        /\ profile.params.some /\ profile.params.val.t = "obj"
        /\ DOMAIN profile.params.val.m \subseteq QueryKeys
        /\ \A k \in QueryKeys :
              EntryOf(profile.params.val, k) = LastPair(out.input.url.pairs, k)

\* the keys of the params of the template after the query overrides
MergedParamKeys ==
    {k \in AllKeys : MergedEntry(profile.params, args.query, k).some}

\* C7: get_url returns the template URL with the merged params (template
\* params overlaid by the query overrides) as its query string, with no query
\* string at all when the merged params are empty; header and body overrides
\* do not change the result.
C7_GetUrl ==
    (op = "get_url" /\ ValidTemplate) =>
        /\ out = get_url(profile, ExtraArgs(<<>>, args.query, <<>>))
        /\ out.ok
        /\ out.val.base = profile.url.base
        /\ out.val.has_query <=> MergedParamKeys # {}
        /\ \A k \in MergedParamKeys :
              LET v == MergedEntry(profile.params, args.query, k).val
              IN v.t \in {"num", "str", "bool"} =>
                    \E i \in 1..Len(out.val.pairs) : out.val.pairs[i] = QueryPair(<<k>>, v.s)

(***************************************************************************)
(* cli.rs parse_key_val, on a directive given as its characters            *)
(***************************************************************************)
Chars == {"%", "@", "=", "a", "1", " "}
is_whitespace(c) == c = " "
is_ascii_alphabetic(c) == c = "a"

RECURSIVE trim_start(_), trim_end(_)
trim_start(s) == IF s # <<>> /\ is_whitespace(Head(s)) THEN trim_start(Tail(s)) ELSE s
trim_end(s) ==
    IF s # <<>> /\ is_whitespace(s[Len(s)]) THEN trim_end(SubSeq(s, 1, Len(s) - 1)) ELSE s
\* str::trim
trim(s) == trim_end(trim_start(s))

RECURSIVE find(_, _, _)
\* the position of the first c in s at or after i, 0 if there is none
find(s, c, i) ==
    IF i > Len(s) THEN 0 ELSE IF s[i] = c THEN i ELSE find(s, c, i + 1)

\* str::splitn(2, '='): one part when s has no '=', else the text before the
\* first '=' and the text after it
splitn2(s) ==
    LET i == find(s, "=", 1)
    IN IF i = 0 THEN <<s>>
       ELSE <<SubSeq(s, 1, i - 1), SubSeq(s, i + 1, Len(s))>>

\* the closure retrieve: the part trimmed, an error when there is no part
retrieve(parts, n) ==
    IF n > Len(parts) THEN Err("InvalidKeyValuePair") ELSE Ok(trim(parts[n]))

\* parse_key_val with any first character of the key taken as a query key
parse_key_val_any_query(s) ==
    LET parts == splitn2(s)
        key == retrieve(parts, 1)
        value == retrieve(parts, 2)
    IN IF ~key.ok THEN key
       ELSE IF ~value.ok THEN value
       ELSE IF key.val = <<>> THEN Err("InvalidKeyType")
       ELSE IF Head(key.val) = "%" THEN Ok(KeyVal("Header", Tail(key.val), value.val))
       ELSE IF Head(key.val) = "@" THEN Ok(KeyVal("Body", Tail(key.val), value.val))
       ELSE Ok(KeyVal("Query", key.val, value.val))

parse_key_val(s) ==
    LET parts == splitn2(s)
        key == retrieve(parts, 1)
        value == retrieve(parts, 2)
    IN IF ~key.ok THEN key
       ELSE IF ~value.ok THEN value
       ELSE IF key.val = <<>> THEN Err("InvalidKeyType")
       ELSE IF Head(key.val) = "%" THEN Ok(KeyVal("Header", Tail(key.val), value.val))
       ELSE IF Head(key.val) = "@" THEN Ok(KeyVal("Body", Tail(key.val), value.val))
       ELSE IF is_ascii_alphabetic(Head(key.val)) THEN Ok(KeyVal("Query", key.val, value.val))
       ELSE Err("InvalidKeyType")

Directives == SeqsUpTo(Chars, MaxDirectiveLen)

(***************************************************************************)
(* The command line: one -e directive parsed, and the parsed KeyVal       *)
(* turned into ExtraArgs                                                   *)
(***************************************************************************)
InitCli ==
    /\ profile = RequestProfile("GET", PlainUrl, None, <<>>, None)
    /\ args = ExtraArgs_default
    /\ response = NoResponse
    /\ res_profile = ResponseProfile_default
    /\ config = NoConfig
    /\ run = NoRun
    /\ op = "new"
    /\ out = Ok(JNull)

ParseKeyVal ==
    \E s \in Directives :
        /\ op = "new"
        /\ op' = "parse_key_val"
        /\ out' = [input |-> s, result |-> parse_key_val(s)]
        /\ UNCHANGED <<profile, args, res_vars, run_vars>>

IntoExtraArgs ==
    /\ op = "parse_key_val"
    /\ out.result.ok
    /\ op' = "into"
    /\ args' = ExtraArgs_from(<<out.result.val>>)
    /\ UNCHANGED <<profile, out, res_vars, run_vars>>

NextCli == ParseKeyVal \/ IntoExtraArgs

SpecCli == InitCli /\ [][NextCli]_vars

\* the directive of the last parse_key_val, cut at its first '='
HasEq == \E i \in 1..Len(out.input) : out.input[i] = "="
FirstEq == CHOOSE i \in 1..Len(out.input) :
               out.input[i] = "=" /\ \A j \in 1..(i - 1) : out.input[j] # "="
RawKey == SubSeq(out.input, 1, FirstEq - 1)
RawValue == SubSeq(out.input, FirstEq + 1, Len(out.input))

\* t is s without the whitespace around it
Stripped(s, t) ==
    /\ \E i \in 0..Len(s) : \E j \in 0..Len(s) :
          /\ i + j + Len(t) = Len(s)
          /\ t = SubSeq(s, i + 1, Len(s) - j)
          /\ \A x \in 1..i : s[x] = " "
          /\ \A x \in (Len(s) - j + 1)..Len(s) : s[x] = " "
    /\ t # <<>> => t[1] # " " /\ t[Len(t)] # " "

Rejected == ~out.result.ok /\ out.result.err \in {"InvalidKeyValuePair", "InvalidKeyType"}
Accepted(t, k, v) == out.result.ok /\ out.result.val = KeyVal(t, k, v)

\* C8 (as amended): parse_key_val splits the directive at its first '=' and
\* trims the whitespace around the key and around the value; a trimmed key
\* starting with '%' is a Header override and one starting with '@' a Body
\* override (sigil stripped), one starting with an ASCII letter is a Query
\* override with the trimmed key; any other first character, an empty key or
\* no '=' is rejected.
C8_ParseKeyValTrimmed ==
    op = "parse_key_val" =>
        IF ~HasEq THEN Rejected
        ELSE \E k \in SeqsUpTo(Chars, Len(RawKey)), v \in SeqsUpTo(Chars, Len(RawValue)) :
                /\ Stripped(RawKey, k) /\ Stripped(RawValue, v)
                /\ IF k = <<>> THEN Rejected
                   ELSE CASE k[1] = "%" -> Accepted("Header", Tail(k), v)
                          [] k[1] = "@" -> Accepted("Body", Tail(k), v)
                          [] k[1] = "a" -> Accepted("Query", k, v)
                          [] OTHER -> Rejected

\* C8 (as claimed): the directive is classified by its own leading character
\* and the key is unchanged, so a directive that starts with anything but '%',
\* '@' or a letter is rejected.
C8_ParseKeyValRaw ==
    op = "parse_key_val" =>
        IF ~HasEq \/ RawKey = <<>> THEN Rejected
        ELSE CASE RawKey[1] = "%" -> Accepted("Header", Tail(RawKey), RawValue)
               [] RawKey[1] = "@" -> Accepted("Body", Tail(RawKey), RawValue)
               [] RawKey[1] = "a" -> Accepted("Query", RawKey, RawValue)
               [] OTHER -> Rejected

\* "%a=1" has been parsed as the header override a = 1 and " 1=a" rejected
C8_Witness ==
    /\ op = "parse_key_val"
    /\ \/ out.input = <<"%", "a", "=", "1">> /\ Accepted("Header", <<"a">>, <<"1">>)
       \/ out.input = <<"1", "=", "a">> /\ Rejected


(***************************************************************************)
(* The response side as a state machine: a response received, and one     *)
(* operation of the normalizer called on it.                               *)
(***************************************************************************)
MaxBodyKeys == 3
MaxSkip == 2
MaxHeaders == 2

BodyKeys == {KeyPool[i] : i \in 1..MaxBodyKeys}

\* the headers a response may carry, each name at most once
ResponseHeaderPool ==
    {Header("content-type", "application/json"),
     Header("content-type", "application/json; charset=utf-8"),
     Header("content-type", "text/html"),
     Header("content-type", OpaqueBytes),
     Header("date", "today"),
     Header("x-token", "abc")}

ResponseHeaders ==
    {h \in SeqsUpTo(ResponseHeaderPool, MaxHeaders) :
        \A i \in 1..Len(h) : \A j \in 1..Len(h) : h[i].name = h[j].name => i = j}

\* body texts: JSON objects, JSON values that are not objects, and texts
\* that are not JSON
JsonBodies ==
    Objects(BodyKeys, {JNum("1"), NestedObject})
    \cup {JArr("0" :> NestedObject), JNum("1"), JStr("x"), JNull, JBool("true")}

NotJson ==
    {<<Tok("word", "hello")>>,
     <<P("{"), Tok("str", "a"), P(":")>>,
     <<P("{"), Tok("str", "a"), P(":"), Tok("num", "1"), P("}"), Tok("word", "x")>>}

BodyTexts == {to_string(v) : v \in JsonBodies} \cup NotJson

Responses ==
    {Response("HTTP/1.1", st, h, b) :
        st \in {"200", "404"}, h \in ResponseHeaders, b \in BodyTexts}

\* the entries a skip list may hold
SkipHeaderNames == {"Content-Type", "content-type", "date"}
SkipHeaders == SeqsUpTo(SkipHeaderNames, MaxSkip)
SkipBody == SeqsUpTo(BodyKeys, MaxSkip)
ProfilePool ==
    {ResponseProfile(h, b) : h \in SeqsUpTo(SkipHeaderNames, 1), b \in SeqsUpTo(BodyKeys, 1)}

\* res.text().await
read_text(res, fails) == IF fails THEN Err("Transport") ELSE Ok(res.body)

InitRes ==
    /\ profile = RequestProfile("GET", PlainUrl, None, <<>>, None)
    /\ args = ExtraArgs_default
    /\ response \in Responses
    /\ res_profile = ResponseProfile_default
    /\ config = NoConfig
    /\ run = NoRun
    /\ op = "new"
    /\ out = Ok(JNull)

GetHeadersText ==
    \E skip \in SkipHeaders :
        /\ op = "new"
        /\ op' = "get_heardes_text"
        /\ res_profile' = ResponseProfile(skip, <<>>)
        /\ out' = get_heardes_text(response, skip)
        /\ UNCHANGED <<req_vars, response, run_vars>>

GetBodyText ==
    \E skip \in SkipBody, fails \in BOOLEAN :
        /\ op = "new"
        /\ op' = IF fails THEN "get_body_text_unread" ELSE "get_body_text"
        /\ res_profile' = ResponseProfile(<<>>, skip)
        /\ out' = get_body_text(response, skip, read_text(response, fails))
        /\ UNCHANGED <<req_vars, response, run_vars>>

GetText ==
    \E rp \in ProfilePool :
        /\ op = "new"
        /\ op' = "get_text"
        /\ res_profile' = rp
        /\ out' = get_text(response, rp, read_text(response, FALSE))
        /\ UNCHANGED <<req_vars, response, run_vars>>

NextRes == GetHeadersText \/ GetBodyText \/ GetText

SpecRes == InitRes /\ [][NextRes]_vars

(***************************************************************************)
(* Claims about the normalizer                                             *)
(***************************************************************************)
\* the lines of a header text: the (name, value) of each "name: value" line,
\* whichever way the value is formatted
RECURSIVE HeaderLines(_)
HeaderLines(text) ==
    IF Len(text) >= 4 /\ text[1].k = "text" /\ text[2] = Text(": ") /\ text[4] = NL
    THEN <<Header(text[1].v, text[3].v)>> \o HeaderLines(SubSeq(text, 5, Len(text)))
    ELSE <<>>

\* what follows the last header line
AfterHeaderLines(text) == SubSeq(text, 4 * Len(HeaderLines(text)) + 1, Len(text))

\* a skip list names a header, whatever the case of its letters
SkipsIgnoringCase(skip, name) ==
    \E i \in 1..Len(skip) : skip[i] \in DOMAIN LowerCase /\ LowerCase[skip[i]] = name

\* C9 (as claimed): the header text holds, in the response's header order, one
\* line per header whose name is not in skip_headers when the names are
\* compared ignoring case, and then exactly one blank line.
C9_HeaderTextIgnoresCase ==
    op = "get_heardes_text" =>
        /\ out.ok
        /\ HeaderLines(out.val) =
              SelectSeq(response.headers,
                        LAMBDA h : ~SkipsIgnoringCase(res_profile.skip_headers, h.name))
        /\ AfterHeaderLines(out.val) = <<NL>>

\* the value a JSON text stands for
ValueOf(text) == serde_json_from_str(text)

\* the content type of the response is application/json
IsJsonResponse ==
    /\ get_content_type(response.headers).ok
    /\ get_content_type(response.headers).val = SomeStr("application/json")

\* the body text of the output: the output without the newline that ends it
BodyOf(text) == SubSeq(text, 1, Len(text) - 1)

\* m without the keys of the skip list, member by member
WithoutKeys(m, skip) ==
    [k \in {x \in DOMAIN m : ~contains(skip, x)} |-> m[k]]

\* C10: for an application/json response whose body was read, the normalized
\* body is the parsed JSON without the top-level keys of skip_body when the
\* root is an object (every other member kept with its nested content), the
\* same value when the root is not an object, and normalization fails with a
\* JSON decoding error when the body is not valid JSON.
C10_JsonBodyFiltered ==
    (op = "get_body_text" /\ IsJsonResponse) =>
        LET parsed == ValueOf(response.body)
        IN IF ~parsed.ok THEN ~out.ok /\ out.err = "JsonSyntax"
           ELSE /\ out.ok
                /\ out.val[Len(out.val)] = NL
                /\ ValueOf(BodyOf(out.val)).ok
                /\ IF parsed.val.t = "obj"
                   THEN ValueOf(BodyOf(out.val)).val =
                            JObj(WithoutKeys(parsed.val.m, res_profile.skip_body))
                   ELSE ValueOf(BodyOf(out.val)).val = parsed.val

\* {a:1,b:{b:2},c:1} with skip <<b>> gives {a:1,c:1}
C10_Witness ==
    /\ op = "get_body_text"
    /\ IsJsonResponse
    /\ response.body = to_string(JObj(("a" :> JNum("1")) @@ ("b" :> NestedObject)
                                        @@ ("c" :> JNum("1"))))
    /\ res_profile.skip_body = <<"b">>
    /\ out.ok
    /\ BodyOf(out.val) = to_string(JObj(("a" :> JNum("1")) @@ ("c" :> JNum("1"))))

\* the response declares a content type other than application/json, or none
IsOtherResponse ==
    LET v == get(response.headers, CONTENT_TYPE)
    IN ~v.some \/ BeforeSemicolon(v.val) # "application/json"

\* C11 (as claimed): for a response whose content type is not
\* application/json (or is missing) and whose body was read, the normalized
\* body is the body text verbatim, whatever skip_body holds, and normalization
\* does not fail.
C11_OtherBodyVerbatim ==
    (op = "get_body_text" /\ IsOtherResponse) =>
        /\ out.ok
        /\ out.val = response.body \o <<NL>>

(***************************************************************************)
(* diff_text (utils.rs): the line diff of two texts, grouped into hunks   *)
(* with a context of ContextRadius lines (similar::TextDiff)               *)
(***************************************************************************)
\* diff.grouped_ops(3)
ContextRadius == 3

\* a line of a text: its tokens, and whether a newline ends it
LineOf(v, nl) == [v |-> v, nl |-> nl]

RECURSIVE split_lines(_, _)
\* TextDiff::from_lines tokenizes a text into lines, each with its newline;
\* cur is the line being read
split_lines(text, cur) ==
    IF text = <<>> THEN (IF cur = <<>> THEN <<>> ELSE <<LineOf(cur, FALSE)>>)
    ELSE IF Head(text) = NL
    THEN <<LineOf(cur, TRUE)>> \o split_lines(Tail(text), <<>>)
    ELSE split_lines(Tail(text), Append(cur, Head(text)))

occurs(x, s) == \E i \in 1..Len(s) : s[i] = x

RECURSIVE lcs_len(_, _)
\* the length of a longest common subsequence
lcs_len(old, new) ==
    IF old = <<>> \/ new = <<>> THEN 0
    ELSE IF Head(old) = Head(new) THEN 1 + lcs_len(Tail(old), Tail(new))
    ELSE IF ~occurs(Head(old), new) THEN lcs_len(Tail(old), new)
    ELSE IF ~occurs(Head(new), old) THEN lcs_len(old, Tail(new))
    ELSE LET a == lcs_len(Tail(old), new)
             b == lcs_len(old, Tail(new))
         IN IF a >= b THEN a ELSE b

RECURSIVE edit_script(_, _)
\* a shortest edit script of old into new (Myers): "E" keeps a line of both,
\* "D" deletes a line of old, "I" inserts a line of new
edit_script(old, new) ==
    IF old = <<>> THEN [i \in 1..Len(new) |-> "I"]
    ELSE IF new = <<>> THEN [i \in 1..Len(old) |-> "D"]
    ELSE IF Head(old) = Head(new) THEN <<"E">> \o edit_script(Tail(old), Tail(new))
    ELSE IF ~occurs(Head(old), new) THEN <<"D">> \o edit_script(Tail(old), new)
    ELSE IF ~occurs(Head(new), old) THEN <<"I">> \o edit_script(old, Tail(new))
    ELSE IF lcs_len(Tail(old), new) >= lcs_len(old, Tail(new))
    THEN <<"D">> \o edit_script(Tail(old), new)
    ELSE <<"I">> \o edit_script(old, Tail(new))

\* similar::DiffOp, indices from 0; an Equal op has old_len = new_len
DiffOp(tag, old_index, old_len, new_index, new_len) ==
    [tag |-> tag, old_index |-> old_index, old_len |-> old_len,
     new_index |-> new_index, new_len |-> new_len]

\* the tag of a changed range
change_tag(old_len, new_len) ==
    IF new_len = 0 THEN "delete" ELSE IF old_len = 0 THEN "insert" ELSE "replace"

RECURSIVE compact_ops(_, _, _, _)
\* the Compact / Replace hooks of capture_diff: adjacent steps of the script
\* become one op, a run of deletions and insertions one Replace
compact_ops(script, acc, oi, ni) ==
    IF script = <<>> THEN acc
    ELSE LET s == Head(script)
             last == IF acc = <<>> THEN DiffOp("none", 0, 0, 0, 0) ELSE acc[Len(acc)]
             front == IF acc = <<>> THEN <<>> ELSE SubSeq(acc, 1, Len(acc) - 1)
         IN IF s = "E"
            THEN compact_ops(Tail(script),
                    IF last.tag = "equal"
                    THEN Append(front, DiffOp("equal", last.old_index, last.old_len + 1,
                                              last.new_index, last.new_len + 1))
                    ELSE Append(acc, DiffOp("equal", oi, 1, ni, 1)),
                    oi + 1, ni + 1)
            ELSE LET d_old == IF s = "D" THEN 1 ELSE 0
                     d_new == IF s = "I" THEN 1 ELSE 0
                 IN compact_ops(Tail(script),
                      IF last.tag \in {"delete", "insert", "replace"}
                      THEN Append(front,
                             DiffOp(change_tag(last.old_len + d_old, last.new_len + d_new),
                                    last.old_index, last.old_len + d_old,
                                    last.new_index, last.new_len + d_new))
                      ELSE Append(acc, DiffOp(change_tag(d_old, d_new), oi, d_old, ni, d_new)),
                      oi + d_old, ni + d_new)

\* TextDiff::from_lines(text1, text2): the lines of both texts and the ops
TextDiff_from_lines(text1, text2) ==
    LET old == split_lines(text1, <<>>)
        new == split_lines(text2, <<>>)
    IN [old |-> old, new |-> new,
        ops |-> compact_ops(edit_script(old, new), <<>>, 0, 0)]

\* usize::saturating_sub
saturating_sub(a, b) == IF a > b THEN a - b ELSE 0

\* group_diff_ops: the leading Equal op keeps its last n lines
trim_first(ops, n) ==
    IF ops # <<>> /\ ops[1].tag = "equal"
    THEN LET offset == saturating_sub(ops[1].old_len, n)
         IN <<DiffOp("equal", ops[1].old_index + offset, ops[1].old_len - offset,
                     ops[1].new_index + offset, ops[1].new_len - offset)>>
            \o Tail(ops)
    ELSE ops

\* group_diff_ops: the trailing Equal op keeps its first n lines
trim_last(ops, n) ==
    IF ops # <<>> /\ ops[Len(ops)].tag = "equal"
    THEN LET last == ops[Len(ops)]
             cut == saturating_sub(last.old_len, n)
         IN SubSeq(ops, 1, Len(ops) - 1)
            \o <<DiffOp("equal", last.old_index, last.old_len - cut,
                        last.new_index, last.new_len - cut)>>
    ELSE ops

\* a group_diff_ops that keeps every pending group
push_pending_always(rv, pending) ==
    IF pending = <<>> THEN rv ELSE Append(rv, pending)

\* the end of group_diff_ops: a pending group that is empty or a lone Equal
\* op is dropped
push_pending(rv, pending) ==
    IF pending = <<>> \/ (Len(pending) = 1 /\ pending[1].tag = "equal")
    THEN rv
    ELSE Append(rv, pending)

\* a test that ends a group at every Equal run longer than n
splits_group_early(len, n) == len > n

\* the test of group_diff_ops for an Equal run that ends a group (len > n * 2)
splits_group(len, n) == len > n * 2

RECURSIVE group_loop(_, _, _, _)
\* the loop of group_diff_ops: an Equal run longer than 2n ends the pending
\* group with its first n lines and starts the next with its last n lines
group_loop(ops, pending, rv, n) ==
    IF ops = <<>> THEN push_pending(rv, pending)
    ELSE LET dop == Head(ops)
         IN IF dop.tag = "equal" /\ splits_group(dop.old_len, n)
            THEN LET offset == saturating_sub(dop.old_len, n)
                 IN group_loop(Tail(ops),
                       <<DiffOp("equal", dop.old_index + offset, dop.old_len - offset,
                                dop.new_index + offset, dop.new_len - offset)>>,
                       Append(rv, Append(pending,
                                DiffOp("equal", dop.old_index, n, dop.new_index, n))),
                       n)
            ELSE group_loop(Tail(ops), Append(pending, dop), rv, n)

\* similar::group_diff_ops (TextDiff::grouped_ops)
group_diff_ops(ops, n) ==
    IF ops = <<>> THEN <<>>
    ELSE group_loop(trim_last(trim_first(ops, n), n), <<>>, <<>>, n)

\* a line of the rendered diff: the sign, the two line numbers as printed
\* (index + 1, 0 for a blank column), the line, and whether a newline is
\* added because the line has none
Change(tag, old_line, new_line, value) ==
    [tag |-> tag, old_line |-> old_line, new_line |-> new_line,
     value |-> value.v, missing_newline |-> ~value.nl]

\* the line of 80 dashes between two groups
Divider ==
    [tag |-> "divider", old_line |-> 0, new_line |-> 0,
     value |-> <<>>, missing_newline |-> FALSE]

\* diff.iter_inline_changes(op): the Equal lines, or the deleted lines of old
\* and then the inserted lines of new
iter_inline_changes(diff, dop) ==
    IF dop.tag = "equal"
    THEN [i \in 1..dop.old_len |->
            Change("equal", dop.old_index + i, dop.new_index + i, diff.old[dop.old_index + i])]
    ELSE [i \in 1..dop.old_len |->
            Change("delete", dop.old_index + i, 0, diff.old[dop.old_index + i])]
         \o [i \in 1..dop.new_len |->
            Change("insert", 0, dop.new_index + i, diff.new[dop.new_index + i])]

RECURSIVE write_group(_, _)
\* for op in group { for change in diff.iter_inline_changes(op) { write!(..) } }
write_group(diff, group) ==
    IF group = <<>> THEN <<>>
    ELSE iter_inline_changes(diff, Head(group)) \o write_group(diff, Tail(group))

RECURSIVE write_groups(_, _, _)
\* for (idx, group) in groups: a divider before every group but the first
write_groups(diff, groups, idx) ==
    IF groups = <<>> THEN <<>>
    ELSE (IF idx > 0 THEN <<Divider>> ELSE <<>>)
         \o write_group(diff, Head(groups))
         \o write_groups(diff, Tail(groups), idx + 1)

diff_text(text1, text2) ==
    LET diff == TextDiff_from_lines(text1, text2)
    IN Ok(write_groups(diff, group_diff_ops(diff.ops, ContextRadius), 0))

(***************************************************************************)
(* diff_text as a state machine: two texts, and diff_text called on them   *)
(***************************************************************************)
MaxLines == 9
MaxEdits == 2
MaxShort == 2

LinePool == <<"l1", "l2", "l3", "l4", "l5", "l6", "l7", "l8", "l9", "l10", "l11", "l12">>

RECURSIVE TextOfLines(_, _)
\* the text with the given lines; the last line ends in a newline iff nl
TextOfLines(ls, nl) ==
    IF ls = <<>> THEN <<>>
    ELSE <<Text(Head(ls))>>
         \o (IF Len(ls) > 1 \/ nl THEN <<NL>> ELSE <<>>)
         \o TextOfLines(Tail(ls), nl)

Numbered(k) == [i \in 1..k |-> LinePool[i]]

\* Numbered(k) with the lines at the positions of S replaced by "x" / removed
Replaced(k, S) == [i \in 1..k |-> IF i \in S THEN "x" ELSE LinePool[i]]
Removed(k, S) == SelectSeq(Numbered(k), LAMBDA l : \A i \in S : LinePool[i] # l)

EditSets(k) == {S \in SUBSET (1..k) : Cardinality(S) <= MaxEdits}

\* texts of a few lines over two letters, with repeated lines, with and
\* without a final newline
ShortTexts ==
    {TextOfLines(ls, nl) : ls \in SeqsUpTo({"a", "b"}, MaxShort), nl \in BOOLEAN}

TextPairs ==
    (ShortTexts \X ShortTexts)
    \cup {<<TextOfLines(<<"a", "b", "c">>, TRUE), TextOfLines(<<"a", "x", "c">>, TRUE)>>}
    \cup UNION {
           UNION {
             {<<TextOfLines(Numbered(k), TRUE), TextOfLines(Replaced(k, S), TRUE)>>,
              <<TextOfLines(Numbered(k), TRUE), TextOfLines(Removed(k, S), TRUE)>>,
              <<TextOfLines(Removed(k, S), TRUE), TextOfLines(Numbered(k), TRUE)>>,
              <<TextOfLines(Replaced(k, S), TRUE), TextOfLines(Replaced(k, S), TRUE)>>}
             : S \in EditSets(k)}
           : k \in 1..MaxLines}

InitText ==
    /\ profile = RequestProfile("GET", PlainUrl, None, <<>>, None)
    /\ args = ExtraArgs_default
    /\ response = NoResponse
    /\ res_profile = ResponseProfile_default
    /\ config = NoConfig
    /\ run = NoRun
    /\ op = "new"
    /\ out = Ok(JNull)

DiffText ==
    \E pair \in TextPairs :
        /\ op = "new"
        /\ op' = "diff_text"
        /\ out' = [text1 |-> pair[1], text2 |-> pair[2],
                   result |-> diff_text(pair[1], pair[2])]
        /\ UNCHANGED <<req_vars, res_vars, run_vars>>

NextText == DiffText

SpecText == InitText /\ [][NextText]_vars

(***************************************************************************)
(* Claims about diff_text                                                  *)
(***************************************************************************)
\* C12: diffing a text against itself renders nothing: no insert, delete or
\* context line and no divider.
C12_SelfDiffEmpty ==
    (op = "diff_text" /\ out.text1 = out.text2) =>
        out.result.ok /\ out.result.val = <<>>

\* a text of five lines or more was diffed against itself
C12_Witness ==
    /\ op = "diff_text"
    /\ out.text1 = out.text2
    /\ Len(split_lines(out.text1, <<>>)) >= 5
    /\ out.result.ok /\ out.result.val = <<>>

\* every line of the diff of the last call, shown or not, in order
AllChanges ==
    LET diff == TextDiff_from_lines(out.text1, out.text2)
    IN write_group(diff, diff.ops)

Changed(c) == c.tag \in {"insert", "delete"}

\* line i of the diff is a changed line or within ContextRadius lines of one
Shown(i) ==
    \E j \in 1..Len(AllChanges) :
        /\ Changed(AllChanges[j])
        /\ i - j <= ContextRadius
        /\ j - i <= ContextRadius

RECURSIVE Hunks(_, _)
\* the shown lines, a divider wherever two of them are not adjacent
Hunks(idxs, prev) ==
    IF idxs = <<>> THEN <<>>
    ELSE (IF prev # 0 /\ Head(idxs) # prev + 1 THEN <<Divider>> ELSE <<>>)
         \o <<AllChanges[Head(idxs)]>>
         \o Hunks(Tail(idxs), Head(idxs))

\* C13: diff_text shows an Equal line iff it lies within 3 lines of a changed
\* line, shows every changed line, and makes one hunk of each maximal run of
\* shown lines; diff("a\nb\nc\n", "a\nx\nc\n") is the one hunk equal a,
\* delete b, insert x, equal c.
C13_ContextHunks ==
    op = "diff_text" =>
        /\ out.result.ok
        /\ out.result.val =
              Hunks(SelectSeq([i \in 1..Len(AllChanges) |-> i], Shown), 0)
        /\ (/\ out.text1 = TextOfLines(<<"a", "b", "c">>, TRUE)
            /\ out.text2 = TextOfLines(<<"a", "x", "c">>, TRUE))
           => out.result.val =
                <<Change("equal", 1, 1, LineOf(<<Text("a")>>, TRUE)),
                  Change("delete", 2, 0, LineOf(<<Text("b")>>, TRUE)),
                  Change("insert", 0, 2, LineOf(<<Text("x")>>, TRUE)),
                  Change("equal", 3, 3, LineOf(<<Text("c")>>, TRUE))>>

\* a diff of two hunks: a divider is written and a line between is hidden
C13_Witness ==
    /\ op = "diff_text"
    /\ out.result.ok
    /\ \E i \in 1..Len(out.result.val) : out.result.val[i] = Divider
    /\ \E i \in 2..(Len(AllChanges) - 1) : ~Shown(i)

(***************************************************************************)
(* DiffProfile::diff (config/xdiff.rs) as a process: the two sends, the    *)
(* two get_text and diff_text, each step up to its next await, while the  *)
(* bodies of the two responses arrive from the servers in any order        *)
(***************************************************************************)
MaxCalls == 2

DiffProfile(req1, req2, res) == [req1 |-> req1, req2 |-> req2, res |-> res]

\* what a server does with a request: the response head it sends (or a
\* transport error), and whether reading the body then fails
Answer(head, body_fails) == [head |-> head, body_fails |-> body_fails]

\* the request of side i (1 or 2) of a DiffProfile
diff_req(dp, i) == IF i = 1 THEN dp.req1 ELSE dp.req2

\* a generate that stores the merged params in the template
after_generate_in_place(self, a) ==
    LET query == set_entries(unwrap_or_empty(self.params), a.query)
    IN IF query.ok
       THEN RequestProfile(self.method, self.url, Some(query.val), self.headers, self.body)
       ELSE self

\* the template after generate: generate takes &self and changes only its own
\* clones of params and body
after_generate(self, a) == self

\* the response with the i-th body to arrive where there is one
awaited_by_arrival(r, i) ==
    IF Len(r.arrived) >= i THEN r.res[r.arrived[i]] ELSE r.res[i]

\* res1 / res2: the response the i-th send returned
awaited(r, i) == r.res[i]

\* the ? operator on the result of get_text: Ok passes, Err is returned
question(t) == t

\* the one profile of the store that the calls run
TheProfile == "p"

\* a call of diff begins: DiffProfile::diff(&self, args)
\* the override sets of the calls: none, one that resolves, one whose value
\* is not JSON text
DiffArgs ==
    {ExtraArgs_default,
     ExtraArgs(<<>>, <<KV("a", "2")>>, <<>>),
     ExtraArgs(<<>>, <<KV("a", "hello")>>, <<>>)}

DiffCall ==
    \E a \in DiffArgs :
        /\ run.pc = "idle"
        /\ run.calls < MaxCalls
        /\ args' = a
        /\ run' = [run EXCEPT !.pc = "send1", !.calls = @ + 1, !.arrived = <<>>,
                              !.past = Append(@, a),
                              !.res = <<NoResponse, NoResponse>>,
                              !.text = <<<<>>, <<>>>>]
        /\ op' = "diff_call"
        /\ UNCHANGED <<profile, res_vars, config, out>>

\* self.req1.send(&args).await? / self.req2.send(&args).await?
DiffSend(i) ==
    LET self == diff_req(config[TheProfile], i)
        sent == send(self, args, run.server[i].head)
        kept == after_generate(self, args)
    IN /\ run.pc = (IF i = 1 THEN "send1" ELSE "send2")
       /\ config' = [config EXCEPT ![TheProfile] =
                        IF i = 1 THEN DiffProfile(kept, @.req2, @.res)
                        ELSE DiffProfile(@.req1, kept, @.res)]
       /\ IF sent.result.ok
          THEN /\ run' = [run EXCEPT !.pc = (IF i = 1 THEN "send2" ELSE "text1"),
                                     !.res[i] = sent.result.val]
               /\ UNCHANGED <<op, out>>
          ELSE /\ run' = [run EXCEPT !.pc = "idle"]
               /\ op' = "diff"
               /\ out' = sent.result
       /\ UNCHANGED <<req_vars, res_vars>>

\* the servers: the body of a response whose head was received arrives
BodyArrives(i) ==
    /\ run.pc \in {"send2", "text1", "text2"}
    /\ run.res[i] # NoResponse
    /\ ~occurs(i, run.arrived)
    /\ run' = [run EXCEPT !.arrived = Append(@, i)]
    /\ UNCHANGED <<req_vars, res_vars, config, op, out>>

\* res1.get_text(&self.res).await? / res2.get_text(&self.res).await?
DiffGetText(i) ==
    LET res == awaited(run, i)
        text == question(get_text(res, config[TheProfile].res,
                                  read_text(res, run.server[i].body_fails)))
    IN /\ run.pc = (IF i = 1 THEN "text1" ELSE "text2")
       /\ occurs(i, run.arrived) \/ ~get_content_type(res.headers).ok
       /\ IF text.ok
          THEN /\ run' = [run EXCEPT !.pc = (IF i = 1 THEN "text2" ELSE "render"),
                                     !.text[i] = text.val]
               /\ UNCHANGED <<op, out>>
          ELSE /\ run' = [run EXCEPT !.pc = "idle"]
               /\ op' = "diff"
               /\ out' = text
       /\ UNCHANGED <<req_vars, res_vars, config>>

\* diff_text(&text1, &text2)
DiffRender ==
    /\ run.pc = "render"
    /\ run' = [run EXCEPT !.pc = "idle"]
    /\ op' = "diff"
    /\ out' = diff_text(run.text[1], run.text[2])
    /\ UNCHANGED <<req_vars, res_vars, config>>

\* RequestProfile::get_url(&self, args) on a request of the store
RunGetUrl ==
    \E a \in DiffArgs, i \in {1, 2} :
        LET self == diff_req(config[TheProfile], i)
            kept == after_generate(self, a)
        IN /\ run.pc = "idle"
           /\ run.calls < MaxCalls
           /\ args' = a
           /\ run' = [run EXCEPT !.calls = @ + 1, !.past = Append(@, a)]
           /\ op' = "get_url"
           /\ out' = get_url(self, a)
           /\ config' = [config EXCEPT ![TheProfile] =
                            IF i = 1 THEN DiffProfile(kept, @.req2, @.res)
                            ELSE DiffProfile(@.req1, kept, @.res)]
           /\ UNCHANGED <<profile, res_vars>>

\* the templates of the store: plain, with a nested params member (which the
\* request builder cannot encode), with a body
PlainTemplate == RequestProfile("GET", PlainUrl, Some(JObj("a" :> JNum("1"))), <<>>, None)
Req1Templates ==
    {PlainTemplate,
     RequestProfile("GET", PlainUrl, Some(JObj("a" :> NestedObject)), <<>>, None)}
Req2Templates ==
    {PlainTemplate,
     RequestProfile("POST", PlainUrl, None, <<>>, Some(JObj("b" :> JStr("x"))))}

DiffResProfiles ==
    {ResponseProfile_default, ResponseProfile(<<"date">>, <<"b">>)}

\* what the servers may answer
ServerResponses ==
    {Response("HTTP/1.1", "200",
              <<Header("content-type", "application/json"), Header("date", "today")>>,
              to_string(JObj(("a" :> JNum("1")) @@ ("b" :> JNum("1"))))),
     Response("HTTP/1.1", "200",
              <<Header("content-type", "application/json")>>,
              to_string(JObj("a" :> JNum("1")))),
     Response("HTTP/1.1", "200",
              <<Header("content-type", "application/json")>>,
              <<Tok("word", "hello")>>),
     Response("HTTP/1.1", "200",
              <<Header("content-type", OpaqueBytes)>>,
              <<Tok("word", "hello")>>)}

Answers ==
    {Answer(Err("Transport"), FALSE)}
    \cup {Answer(Ok(r), FALSE) : r \in ServerResponses}
    \cup {Answer(Ok(r), TRUE) : r \in {Response("HTTP/1.1", "404",
                                                <<Header("content-type", "text/html")>>,
                                                <<Tok("word", "hello")>>)}}

InitDiff ==
    \E r1 \in Req1Templates, r2 \in Req2Templates, rp \in DiffResProfiles,
       a1 \in Answers, a2 \in Answers :
        /\ profile = RequestProfile("GET", PlainUrl, None, <<>>, None)
        /\ args = ExtraArgs_default
        /\ response = NoResponse
        /\ res_profile = ResponseProfile_default
        /\ config = (TheProfile :> DiffProfile(r1, r2, rp))
        /\ run = [pc |-> "idle", calls |-> 0, server |-> <<a1, a2>>,
                  res |-> <<NoResponse, NoResponse>>, arrived |-> <<>>,
                  text |-> <<<<>>, <<>>>>, past |-> <<>>,
                  loaded |-> (TheProfile :> DiffProfile(r1, r2, rp))]
        /\ op = "new"
        /\ out = Ok(JNull)

NextDiff ==
    \/ DiffCall
    \/ DiffSend(1) \/ DiffSend(2)
    \/ BodyArrives(1) \/ BodyArrives(2)
    \/ DiffGetText(1) \/ DiffGetText(2)
    \/ DiffRender
    \/ RunGetUrl

SpecDiff == InitDiff /\ [][NextDiff]_vars

(***************************************************************************)
(* Claims about DiffProfile::diff                                          *)
(***************************************************************************)
\* a call of diff has returned
DiffReturned == op = "diff" /\ run.pc = "idle"

\* what the steps of side i come to for the profile dp, whatever the timing:
\* the send, and the canonical text of the response the server gives
SendResult(dp, i) == send(diff_req(dp, i), args, run.server[i].head).result
TextResult(dp, i) ==
    get_text(run.server[i].head.val, dp.res,
             read_text(run.server[i].head.val, run.server[i].body_fails))

\* some step of either side fails
SideFails(dp) ==
    \/ ~SendResult(dp, 1).ok
    \/ ~SendResult(dp, 2).ok
    \/ ~TextResult(dp, 1).ok
    \/ ~TextResult(dp, 2).ok

\* the errors of override resolution, transport and body decoding
StepErrors == {"JsonSyntax", "InvalidHeaderName", "UnsupportedContentType", "Transport"}

\* diff returns a diff only when every step of both sides succeeded, and it
\* is then the diff of the two canonical texts; a failing step leaves no diff
\* text.
NoPartialDiff ==
    DiffReturned =>
        LET dp == config[TheProfile]
        IN /\ SideFails(dp) => ~out.ok /\ out.val = JNull
           /\ out.ok => /\ ~SideFails(dp)
                        /\ out = diff_text(TextResult(dp, 1).val, TextResult(dp, 2).val)

\* C14 (as claimed): whenever a step of either side fails, diff returns an
\* error (it does not abort) and no diff text, and it returns a diff only when
\* every step of both sides succeeded.
C14_ErrorOnEveryFailure ==
    DiffReturned =>
        /\ NoPartialDiff
        /\ SideFails(config[TheProfile]) => out.err # "panic"

\* the result of diff as a function of the profile, the overrides and the two
\* server answers
DiffOf(dp) ==
    IF ~SendResult(dp, 1).ok THEN SendResult(dp, 1)
    ELSE IF ~SendResult(dp, 2).ok THEN SendResult(dp, 2)
    ELSE IF ~TextResult(dp, 1).ok THEN TextResult(dp, 1)
    ELSE IF ~TextResult(dp, 2).ok THEN TextResult(dp, 2)
    ELSE diff_text(TextResult(dp, 1).val, TextResult(dp, 2).val)

C20_TemplateUnchanged ==
    /\ config = run.loaded
    /\ DiffReturned => out = DiffOf(run.loaded[TheProfile])
    /\ op = "get_url" =>
          \E i \in {1, 2} : out = get_url(diff_req(run.loaded[TheProfile], i), args)

\* a diff without overrides returned after a call that had a query override
C20_Witness ==
    /\ DiffReturned
    /\ Len(run.past) = 2
    /\ run.past[1] = ExtraArgs(<<>>, <<KV("a", "2")>>, <<>>)
    /\ run.past[2] = ExtraArgs_default
    /\ out.ok
    /\ config = run.loaded

(***************************************************************************)
(* The commands (bin/xdiff.rs, bin/xreq.rs): main loads the store, looks   *)
(* the profile up, runs it, prints an error and exits                      *)
(***************************************************************************)
MaxProfiles == 2

NamePool == <<"p", "q", "r", "s">>
Names == {NamePool[i] : i \in 1..MaxProfiles}

\* an error with the context anyhow attaches to it (a profile name)
ErrContext(e, name) == [ok |-> FALSE, err |-> e, val |-> JStr(name)]

\* ConfigValidate for DiffProfile that checks req1 only
validate_req1_only(kind, p) ==
    IF kind = "xdiff" THEN validate(p.req1) ELSE validate(p)

\* ConfigValidate for DiffProfile (req1, then req2), and RequestProfile::validate
\* for a profile of a RequestConfig
validate_profile(kind, p) ==
    IF kind = "xdiff"
    THEN (IF ~validate(p.req1).ok THEN validate(p.req1) ELSE validate(p.req2))
    ELSE validate(p)

RECURSIVE validate_config(_, _, _)
\* ConfigValidate for DiffConfig / RequestConfig: for (name, profile) in
\* &self.profiles, in the order the HashMap yields them; the first invalid
\* profile ends the loop with an error naming it
validate_config(kind, profiles, order) ==
    IF order = <<>> THEN Ok(JNull)
    ELSE IF ~validate_profile(kind, profiles[Head(order)]).ok
    THEN ErrContext("Validation", Head(order))
    ELSE validate_config(kind, profiles, Tail(order))

\* the content of a configuration file: text that is not a store, or the
\* store it spells
Yaml(valid, profiles) == [valid |-> valid, profiles |-> profiles]

\* serde_yaml::from_str
serde_yaml_from_str(content) ==
    IF content.valid THEN Ok(content.profiles) ELSE Err("YamlSyntax")

\* LoadConfig::from_yaml
from_yaml(kind, content, order) ==
    LET parsed == serde_yaml_from_str(content)
    IN IF ~parsed.ok THEN parsed
       ELSE IF ~validate_config(kind, parsed.val, order).ok
       THEN validate_config(kind, parsed.val, order)
       ELSE parsed

\* the operation aborted
is_panic(r) == ~r.ok /\ r.err = "panic"

\* a file system path: no file there, or a file with a content
NoFile == [exists |-> FALSE, content |-> Yaml(FALSE, <<>>)]
File(content) == [exists |-> TRUE, content |-> content]

\* LoadConfig::load_yaml: fs::read_to_string(path).unwrap(), then from_yaml
load_yaml(kind, file, order) ==
    IF ~file.exists THEN Panic ELSE from_yaml(kind, file.content, order)

\* a lookup that falls back on some profile of the store
get_profile_any(profiles, name) ==
    IF name \in DOMAIN profiles THEN Some(profiles[name])
    ELSE IF DOMAIN profiles # {} THEN Some(profiles[CHOOSE n \in DOMAIN profiles : TRUE])
    ELSE None

\* DiffConfig::get_profile / RequestConfig::get_profile: self.profiles.get(name)
get_profile(profiles, name) ==
    IF name \in DOMAIN profiles THEN Some(profiles[name]) ELSE None

\* .ok_or_else(|| anyhow!("Profile {} not found in config file {}", ..))
ok_or_else(o, name) ==
    IF o.some THEN Ok(o.val) ELSE ErrContext("ProfileNotFound", name)

\* the ? of a step: its error is returned at once, and what follows runs only
\* after its success
and_then(r, rest) == IF r.ok THEN rest ELSE r

\* res.get_text(&self.res).await of one side
text_of(res, rp, body_fails) == get_text(res.val, rp, read_text(res.val, body_fails))

\* diff_text(&text1, &text2) of the two texts, each behind its ?
diff_texts(text1, text2) ==
    and_then(text1, and_then(text2, diff_text(text1.val, text2.val)))

\* DiffProfile::diff, given the outcomes res1 and res2 of its two sends: the
\* text of each response, then the diff of the two texts; the first failing
\* step ends it
diff(dp, server, res1, res2) ==
    and_then(res1, and_then(res2,
        diff_texts(text_of(res1, dp.res, server[1].body_fails),
                   text_of(res2, dp.res, server[2].body_fails))))

\* run of xreq, given the outcomes of its send and its get_url: the header
\* text and the body text of the response, without skips
xreq_run(res, url, body_fails) ==
    and_then(res, and_then(url, and_then(get_heardes_text(res.val, <<>>),
        get_body_text(res.val, <<>>, read_text(res.val, body_fails)))))

\* the requests a run dispatches: one per send that gets as far as the
\* transport; the second send of diff runs only after the first returned a
\* response
dispatched(kind, sent1, sent2) ==
    IF kind = "xdiff"
    THEN (IF sent1.dispatched THEN 1 ELSE 0)
         + (IF sent1.result.ok /\ sent2.dispatched THEN 1 ELSE 0)
    ELSE (IF sent1.dispatched THEN 1 ELSE 0)

\* print_error: an error is written to stderr; Ok(()) is returned unless the
\* write fails
print_error(result, writable) ==
    IF ~result.ok /\ ~writable THEN Err("Io") ELSE Ok(JNull)

\* the exit status of main: print_error(result)?; Ok(())
exit_status(printed) == IF printed.ok THEN "0" ELSE "1"


\* the orders in which a HashMap may yield the names of a store
Orders(profiles) ==
    {o \in [1..Cardinality(DOMAIN profiles) -> DOMAIN profiles] :
        \A i \in DOMAIN o : \A j \in DOMAIN o : o[i] = o[j] => i = j}

\* the profiles a store may hold
NestedTemplate == RequestProfile("GET", PlainUrl, Some(JObj("a" :> NestedObject)), <<>>, None)
ArrayParamsTemplate == RequestProfile("GET", PlainUrl, Some(ArrayValue), <<>>, None)
NumberBodyTemplate == RequestProfile("POST", PlainUrl, None, <<>>, Some(JNum("1")))

ProfilePoolOf(kind) ==
    IF kind = "xdiff"
    THEN {DiffProfile(PlainTemplate, PlainTemplate, ResponseProfile_default),
          DiffProfile(NestedTemplate, PlainTemplate, ResponseProfile_default),
          DiffProfile(ArrayParamsTemplate, PlainTemplate, ResponseProfile_default),
          DiffProfile(PlainTemplate, NumberBodyTemplate, ResponseProfile_default)}
    ELSE {PlainTemplate, NestedTemplate, NumberBodyTemplate}

Stores(kind) == UNION {[d -> ProfilePoolOf(kind)] : d \in SUBSET Names}

Files(kind) ==
    {NoFile, File(Yaml(FALSE, <<>>))} \cup {File(Yaml(TRUE, st)) : st \in Stores(kind)}

JsonAnswer == Answer(Ok(Response("HTTP/1.1", "200",
                                 <<Header("content-type", "application/json")>>,
                                 to_string(JObj("a" :> JNum("1"))))), FALSE)
OpaqueAnswer == Answer(Ok(Response("HTTP/1.1", "200",
                                   <<Header("content-type", OpaqueBytes)>>,
                                   <<Tok("word", "hello")>>)), FALSE)
NotJsonAnswer == Answer(Ok(Response("HTTP/1.1", "200",
                                    <<Header("content-type", "application/json")>>,
                                    <<Tok("word", "hello")>>)), FALSE)

ServerPairs ==
    {<<JsonAnswer, JsonAnswer>>,
     <<Answer(Err("Transport"), FALSE), JsonAnswer>>,
     <<JsonAnswer, NotJsonAnswer>>,
     <<OpaqueAnswer, JsonAnswer>>}

InitMain ==
    \E kind \in {"xdiff", "xreq"}, name \in Names, a \in DiffArgs, sv \in ServerPairs :
        \E file \in Files(kind) :
            /\ profile = RequestProfile("GET", PlainUrl, None, <<>>, None)
            /\ args = a
            /\ response = NoResponse
            /\ res_profile = ResponseProfile_default
            /\ config = NoConfig
            /\ run = [pc |-> "start", kind |-> kind, file |-> file, name |-> name,
                      server |-> sv, loaded |-> FALSE, result |-> Ok(JNull),
                      sent |-> 0, exit |-> "running"]
            /\ op = "new"
            /\ out = Ok(JNull)

\* let config = DiffConfig::load_yaml(&config_file)?;
MainLoad ==
    \E order \in Orders(run.file.content.profiles) :
        LET loaded == load_yaml(run.kind, run.file, order)
        IN /\ run.pc = "start"
           /\ op' = "load_yaml"
           /\ out' = loaded
           /\ config' = IF loaded.ok THEN loaded.val ELSE config
           /\ run' = IF is_panic(loaded)
                     THEN [run EXCEPT !.pc = "exited", !.exit = "101"]
                     ELSE IF ~loaded.ok
                     THEN [run EXCEPT !.pc = "print", !.result = loaded]
                     ELSE [run EXCEPT !.pc = "lookup", !.loaded = TRUE]
           /\ UNCHANGED <<req_vars, res_vars>>

\* let profile = config.get_profile(&args.profile).ok_or_else(..)?;
MainGetProfile ==
    LET found == ok_or_else(get_profile(config, run.name), run.name)
    IN /\ run.pc = "lookup"
       /\ op' = "get_profile"
       /\ out' = found
       /\ run' = IF found.ok THEN [run EXCEPT !.pc = "run"]
                 ELSE [run EXCEPT !.pc = "print", !.result = found]
       /\ UNCHANGED <<req_vars, res_vars, config>>

\* profile.diff(&extra_args).await? (xdiff); send, get_url and the texts (xreq)
MainRunWith(sent1, sent2, url) ==
    /\ run.pc = "run"
    /\ op' = "run"
    /\ out' = IF run.kind = "xdiff"
              THEN diff(out.val, run.server, sent1.result, sent2.result)
              ELSE xreq_run(sent1.result, url, run.server[1].body_fails)
    /\ run' = [run EXCEPT
                 !.pc = IF is_panic(out') THEN "exited" ELSE "print",
                 !.exit = IF is_panic(out') THEN "101" ELSE @,
                 !.result = IF is_panic(out') THEN @
                            ELSE IF out'.ok THEN Ok(JNull) ELSE out',
                 !.sent = dispatched(run.kind, sent1, sent2)]
    /\ UNCHANGED <<req_vars, res_vars, config>>

\* the run with the sends of the profile that was found: req1 and req2 of a
\* diff profile, the one request (and its url) of a request profile
MainRun ==
    MainRunWith(send(IF run.kind = "xdiff" THEN out.val.req1 ELSE out.val,
                     args, run.server[1].head),
                send(out.val.req2, args, run.server[2].head),
                get_url(out.val, args))

\* print_error(result)?; Ok(())
MainExit ==
    \E writable \in BOOLEAN :
        /\ run.pc = "print"
        /\ op' = "exit"
        /\ run' = [run EXCEPT !.pc = "exited",
                              !.exit = exit_status(print_error(run.result, writable))]
        /\ UNCHANGED <<req_vars, res_vars, config, out>>

NextMain == MainLoad \/ MainGetProfile \/ MainRun \/ MainExit

SpecMain == InitMain /\ [][NextMain]_vars

(***************************************************************************)
(* Claims about the store and the commands                                 *)
(***************************************************************************)
\* params and body of a request are each absent or an object
ShapeOk(r) ==
    /\ r.params.some => r.params.val.t = "obj"
    /\ r.body.some => r.body.val.t = "obj"

\* the names of the profiles of the file's store that hold an invalid request
InvalidProfiles ==
    LET store == run.file.content.profiles
    IN {n \in DOMAIN store :
          IF run.kind = "xdiff"
          THEN ~ShapeOk(store[n].req1) \/ ~ShapeOk(store[n].req2)
          ELSE ~ShapeOk(store[n])}

\* C16: loading a store validates every profile: when some profile holds a
\* request whose params or body is not an object, loading fails with a
\* validation error naming an invalid profile and returns no store; a store is
\* returned only when every request of every profile is valid.
C16_LoadValidatesAll ==
    (op = "load_yaml" /\ run.file.exists /\ run.file.content.valid) =>
        /\ out.ok <=> InvalidProfiles = {}
        /\ ~out.ok => /\ out.err = "Validation"
                      /\ out.val.s \in InvalidProfiles
                      /\ config = NoConfig
                      /\ ~run.loaded
        /\ out.ok => config = run.file.content.profiles /\ run.loaded

\* a store of two profiles, the first valid and the second with an invalid
\* req2, is refused
C16_Witness ==
    /\ op = "load_yaml"
    /\ run.kind = "xdiff"
    /\ run.file.exists /\ run.file.content.valid
    /\ DOMAIN run.file.content.profiles = {"p", "q"}
    /\ InvalidProfiles = {"q"}
    /\ ShapeOk(run.file.content.profiles["q"].req1)
    /\ ~out.ok /\ out.val.s = "q"

\* C17: looking up a name that is not in the store gives a not-found result
\* that run turns into a ProfileNotFound error: nothing aborts, no request is
\* sent and the store is unchanged; a name that is in the store gives that
\* profile.
C17_GetProfile ==
    run.loaded =>
        /\ config = run.file.content.profiles
        /\ op = "get_profile" =>
              IF run.name \in DOMAIN config
              THEN out = Ok(config[run.name]) /\ run.pc = "run"
              ELSE ~out.ok /\ out.err = "ProfileNotFound" /\ run.pc = "print"
        /\ (run.name \notin DOMAIN config /\ run.pc # "lookup") =>
              /\ run.result.err = "ProfileNotFound"
              /\ run.sent = 0
              /\ run.exit # "101"
              /\ op \in {"get_profile", "exit"}

\* a name that the loaded store of one profile does not hold was looked up
C17_Witness ==
    /\ run.loaded
    /\ op = "exit"
    /\ DOMAIN config = {"p"}
    /\ run.name = "q"
    /\ run.result.err = "ProfileNotFound"
    /\ run.sent = 0

\* C18 (as claimed): no operation aborts: loading a missing file, sending a
\* request that cannot be built, and normalizing a response whose
\* Content-Type is not printable ASCII each end in an error value.
C18_NoAbort ==
    /\ run.exit # "101"
    /\ ~is_panic(out)

\* C19 (as claimed): the process exits with status zero only when the action
\* succeeded, and with a non-zero status after printing the error otherwise.
C19_ExitStatus ==
    (run.pc = "exited" /\ run.exit # "101") =>
        (run.exit = "0" <=> run.result.ok)

====================================================================
